---- MODULE Spec2Model ----
(***************************************************************************)
(* Model of src/studio/import_asset_dialog.cpp (LumixEngine studio): the   *)
(* ImportThread worker (saveLumixMesh: writeMeshes, writeGeometry with     *)
(* fillSkinInfo, writeSkeleton; saveLumixMaterials), the dialog's event    *)
(* handlers, and importAnimation with getPosition.                         *)
(*                                                                         *)
(* Files are sequences of fields [tag, val, bytes]; payloads the           *)
(* properties do not read (positions, packed normals, transforms) keep     *)
(* only their byte width.  Floating-point values are exact rationals or    *)
(* integer units.                                                          *)
(***************************************************************************)
EXTENDS Integers, Sequences, FiniteSets, TLC

VARIABLES
    scene,          \* m_importer.GetScene(): NoScene or the aiScene
    wpc,            \* position of the ImportThread worker
    file,           \* fields written so far to the .msh QFile
    skin_infos,     \* QVector<SkinInfo> of writeGeometry
    fsi,            \* fillSkinInfo: number of (bone, weight) pairs processed
    mat,            \* saveLumixMaterials: [i, success, returned]
    fs_ops,         \* file operations saveLumixMaterials attempted, in order
    m_source,       \* ImportThread::m_source
    m_import_materials,
    m_convert_texture_to_DDS,
    ui,             \* the dialog's widgets
    gpc,            \* position of the GUI thread
    anim,           \* importAnimation's locals
    anifile,        \* fields written so far to the .ani QFile
    pending,        \* queued QThread::finished signals not yet delivered
    disk,           \* artifacts created in the destination directory
    log_error,      \* messages sent to Lumix::g_log_error
    saved,          \* run(): what saveLumixMesh returned, "none" before it returns
    gp              \* a call of getPosition: [channel, frame, ret]

vars == <<scene, wpc, file, skin_infos, fsi, mat, fs_ops, m_source,
          m_import_materials, m_convert_texture_to_DDS, ui, gpc, anim, anifile,
          pending, disk, log_error, saved, gp>>

\* What the worker's serialization steps leave alone.
dialogVars == <<ui, gpc, anim, anifile, pending, gp>>
settingVars == <<m_source, m_import_materials, m_convert_texture_to_DDS>>
materialVars == <<mat, fs_ops>>

-----------------------------------------------------------------------------
(* Bounds of the model. *)
MaxMeshes == 2
MaxVertices == 2
MaxFaces == 1
MaxBones == 2
MaxWeights == 3
MaxPending == 2
MaxEdits == 1
MaxClicks == 1
MaxKeys == 3
MaxFrame == 15
MaxChannels == 2
MaxDuration == 2
MaxClips == 2
MaxMaterials == 2
MaxTextures == 1
MaxNodes == 4

-----------------------------------------------------------------------------
(* Program constants. *)
RIGID_VERTEX_SIZE == 24
SKINNED_VERTEX_SIZE == 56

NoScene == [null |-> TRUE]

-----------------------------------------------------------------------------
(* Generic helpers. *)
RECURSIVE SumSeq(_)
SumSeq(s) == IF s = <<>> THEN 0 ELSE Head(s) + SumSeq(Tail(s))

RECURSIVE Flatten(_)
Flatten(ss) == IF ss = <<>> THEN <<>> ELSE Head(ss) \o Flatten(Tail(ss))

\* All sequences over S of length lo..hi.
SeqsOf(S, lo, hi) == UNION {[1..n -> S] : n \in lo..hi}

Field(tag, val, bytes) == [tag |-> tag, val |-> val, bytes |-> bytes]

\* QVector<QString>::indexOf: 0-based index of the first match, -1 if none.
indexOf(names, s) ==
    IF \E i \in 1..Len(names) : names[i] = s
    THEN (CHOOSE i \in 1..Len(names) :
            names[i] = s /\ \A j \in 1..(i - 1) : names[j] # s) - 1
    ELSE -1

-----------------------------------------------------------------------------
(* The node tree: node n has parent sc.mParent[n] (0 for the root, node 1) *)
(* and name sc.mName[n]; children are kept in ascending node order.        *)
Root == 1

NodeIds(sc) == [n \in 1..Len(sc.mParent) |-> n]

Children(sc, n) == SelectSeq(NodeIds(sc), LAMBDA c : sc.mParent[c] = n)

mNumChildren(sc, n) == Len(Children(sc, n))

getVertexSize(sc) ==
    IF mNumChildren(sc, Root) > 0 THEN SKINNED_VERTEX_SIZE ELSE RIGID_VERTEX_SIZE

\* S::x of getBoneNames: the nodes in pre-order.
RECURSIVE PreOrder(_, _)
PreOrder(sc, n) ==
    LET kids == Children(sc, n)
    IN  <<n>> \o Flatten([k \in 1..Len(kids) |-> PreOrder(sc, kids[k])])

getBoneNames(sc) ==
    LET order == PreOrder(sc, Root)
    IN  [k \in 1..Len(order) |-> sc.mName[order[k]]]

-----------------------------------------------------------------------------
(* writeGeometry, first part: the index count, the indices and the vertex  *)
(* buffer size.                                                            *)
TotalFaces(sc) == SumSeq([i \in 1..Len(sc.mMeshes) |-> Len(sc.mMeshes[i].mFaces)])

TotalVertices(sc) == SumSeq([i \in 1..Len(sc.mMeshes) |-> sc.mMeshes[i].mNumVertices])

indices_count(sc) == SumSeq([i \in 1..Len(sc.mMeshes) |-> Len(sc.mMeshes[i].mFaces) * 3])

vertices_size(sc) ==
    SumSeq([i \in 1..Len(sc.mMeshes) |-> sc.mMeshes[i].mNumVertices * getVertexSize(sc)])

FaceFields(face) == [c \in 1..3 |-> Field("index", face[c], 4)]

MeshIndexFields(mesh) ==
    Flatten([j \in 1..Len(mesh.mFaces) |-> FaceFields(mesh.mFaces[j])])

IndexFields(sc) ==
    Flatten([i \in 1..Len(sc.mMeshes) |-> MeshIndexFields(sc.mMeshes[i])])

DefaultSkinInfo ==
    [weights |-> <<0, 0, 0, 0>>, bone_indices |-> <<0, 0, 0, 0>>, index |-> 0]

WriteIndices ==
    /\ wpc = "writeGeometry"
    /\ file' = file \o <<Field("indices_count", indices_count(scene), 4)>>
                    \o IndexFields(scene)
                    \o <<Field("vertices_size", vertices_size(scene), 4)>>
    /\ skin_infos' = [v \in 1..(vertices_size(scene) \div getVertexSize(scene))
                        |-> DefaultSkinInfo]
    /\ fsi' = 0
    /\ wpc' = "fillSkinInfo"
    /\ UNCHANGED <<scene, materialVars, settingVars, dialogVars, disk, log_error, saved>>

-----------------------------------------------------------------------------
(* fillSkinInfo: the three nested loops visit the (bone, weight) pairs in  *)
(* this order; each pair carries the mesh's vertex offset.                 *)
MeshOffset(sc, i) == SumSeq([m \in 1..(i - 1) |-> sc.mMeshes[m].mNumVertices])

BonePairs(sc, i, bone) ==
    [k \in 1..Len(bone.mWeights) |->
        [vertex |-> MeshOffset(sc, i) + bone.mWeights[k].mVertexId,
         weight |-> bone.mWeights[k].mWeight,
         name |-> bone.mName,
         bone_index |-> indexOf(getBoneNames(sc), bone.mName)]]

MeshPairs(sc, i) ==
    Flatten([j \in 1..Len(sc.mMeshes[i].mBones) |->
                BonePairs(sc, i, sc.mMeshes[i].mBones[j])])

SkinPairs(sc) == Flatten([i \in 1..Len(sc.mMeshes) |-> MeshPairs(sc, i)])

\* Lines 176-178 with info.index inside the arrays.
StoreInfluence(info, weight, bone_index) ==
    [weights |-> [info.weights EXCEPT ![info.index + 1] = weight],
     bone_indices |-> [info.bone_indices EXCEPT ![info.index + 1] = bone_index],
     index |-> info.index + 1]

FillSkinInfoStore ==
    /\ wpc = "fillSkinInfo"
    /\ fsi < Len(SkinPairs(scene))
    /\ LET p == SkinPairs(scene)[fsi + 1]
           info == skin_infos[p.vertex + 1]
       IN  /\ info.index < 4
           /\ skin_infos' = [skin_infos EXCEPT
                  ![p.vertex + 1] = StoreInfluence(info, p.weight, p.bone_index)]
    /\ fsi' = fsi + 1
    /\ UNCHANGED <<scene, wpc, file, materialVars, settingVars, dialogVars,
                   disk, log_error, saved>>

\* The integer image of a float written through weights[] into an int field.
FloatBits(w) == 1000 + w

(* Lines 176-178 with info.index >= 4: weights[index] and bone_indices[index] *)
(* lie outside the arrays, which is undefined.  With the struct's layout      *)
(* (weights, bone_indices, index in consecutive words) weights[4 + d] is      *)
(* bone_indices[d] and bone_indices[4] is index; a build may also keep the    *)
(* stores out of the struct.  In every outcome ++info.index runs on the value *)
(* index then holds.                                                          *)
OverflowOutcomes(info, weight, bone_index) ==
    LET d == info.index - 4
        clobbered == IF d < 4
                     THEN [info.bone_indices EXCEPT ![d + 1] = FloatBits(weight)]
                     ELSE info.bone_indices
    IN  {[weights |-> info.weights, bone_indices |-> b, index |-> ix] :
            b \in {info.bone_indices, clobbered},
            ix \in {info.index + 1} \cup (IF d = 0 THEN {bone_index + 1} ELSE {})}

FillSkinInfoOverflow ==
    /\ wpc = "fillSkinInfo"
    /\ fsi < Len(SkinPairs(scene))
    /\ LET p == SkinPairs(scene)[fsi + 1]
           info == skin_infos[p.vertex + 1]
       IN  /\ info.index >= 4
           /\ \E out \in OverflowOutcomes(info, p.weight, p.bone_index) :
                 skin_infos' = [skin_infos EXCEPT ![p.vertex + 1] = out]
    /\ fsi' = fsi + 1
    /\ UNCHANGED <<scene, wpc, file, materialVars, settingVars, dialogVars,
                   disk, log_error, saved>>

-----------------------------------------------------------------------------
(* writeGeometry, last part: one record per vertex of every mesh, ii       *)
(* running over skin_infos.  The weights and bone indices are written      *)
(* whatever the vertex size is.                                            *)
VertexFields(info) ==
    << Field("weights", info.weights, 16),
       Field("bone_indices", info.bone_indices, 16),
       Field("position", <<>>, 12),
       Field("normal", <<>>, 4),
       Field("tangent", <<>>, 4),
       Field("uv", <<>>, 4) >>

MeshVertexFields(sc, infos, i) ==
    Flatten([j \in 1..sc.mMeshes[i].mNumVertices |->
                VertexFields(infos[MeshOffset(sc, i) + j])])

VertexBuffer(sc, infos) ==
    Flatten([i \in 1..Len(sc.mMeshes) |-> MeshVertexFields(sc, infos, i)])

\* mesh->mTangents[j] is read for every vertex: a mesh without tangents
\* (a null mTangents) and with a vertex makes the read undefined.
ReadsNullTangents(sc) ==
    \E i \in 1..Len(sc.mMeshes) :
        ~sc.mMeshes[i].mTangents /\ sc.mMeshes[i].mNumVertices > 0

WriteVertices ==
    /\ wpc = "fillSkinInfo"
    /\ fsi = Len(SkinPairs(scene))
    /\ ~ReadsNullTangents(scene)
    /\ file' = file \o VertexBuffer(scene, skin_infos)
    /\ wpc' = "writeSkeleton"
    /\ UNCHANGED <<scene, skin_infos, fsi, materialVars, settingVars, dialogVars,
                   disk, log_error, saved>>

\* The null read either stops the process (nothing more reaches the file) or
\* yields some bytes and the loop goes on.
WriteVerticesNullTangents ==
    /\ wpc = "fillSkinInfo"
    /\ fsi = Len(SkinPairs(scene))
    /\ ReadsNullTangents(scene)
    /\ \/ /\ wpc' = "crashed"
          /\ gpc' = "crashed"
          /\ UNCHANGED file
       \/ /\ file' = file \o VertexBuffer(scene, skin_infos)
          /\ wpc' = "writeSkeleton"
          /\ UNCHANGED gpc
    /\ UNCHANGED <<scene, skin_infos, fsi, materialVars, settingVars,
                   ui, anim, anifile, pending, gp, disk, log_error, saved>>

-----------------------------------------------------------------------------
(* writeMeshes: the submesh table.                                         *)
MaterialName(sc, mesh) == sc.mMaterials[mesh.mMaterialIndex + 1].name

\* writeAttribute
writeAttribute(attribute_name, attribute_type) ==
    << Field("attribute_len", Len(attribute_name), 4),
       Field("attribute_name", attribute_name, Len(attribute_name)),
       Field("attribute_type", attribute_type, 4) >>

AttributeFields(vertex_size) ==
    (IF vertex_size = SKINNED_VERTEX_SIZE
     THEN writeAttribute("in_weights", "FLOAT4") \o writeAttribute("in_indices", "INT4")
     ELSE <<>>)
    \o writeAttribute("in_position", "POSITION")
    \o writeAttribute("in_normal", "BYTE4")
    \o writeAttribute("in_tangents", "BYTE4")
    \o writeAttribute("in_tex_coords", "SHORT2")

\* attribute_array_offset and indices_offset on entry to iteration i.
attribute_array_offset(sc, i) ==
    SumSeq([m \in 1..(i - 1) |-> sc.mMeshes[m].mNumVertices * getVertexSize(sc)])

indices_offset(sc, i) ==
    SumSeq([m \in 1..(i - 1) |-> Len(sc.mMeshes[m].mFaces) * 3])

SubmeshFields(sc, i) ==
    LET mesh == sc.mMeshes[i]
        material_name == MaterialName(sc, mesh)
        vertex_size == getVertexSize(sc)
    IN  << Field("material_name_len", Len(material_name), 4),
           Field("material_name", material_name, Len(material_name)),
           Field("attribute_array_offset", attribute_array_offset(sc, i), 4),
           Field("attribute_array_size", mesh.mNumVertices * vertex_size, 4),
           Field("indices_offset", indices_offset(sc, i), 4),
           Field("mesh_tri_count", Len(mesh.mFaces), 4),
           Field("mesh_name_len", Len(material_name), 4),
           Field("mesh_name", material_name, Len(material_name)),
           Field("attribute_count",
                 IF vertex_size = SKINNED_VERTEX_SIZE THEN 6 ELSE 4, 4) >>
        \o AttributeFields(vertex_size)

WriteMeshes ==
    /\ wpc = "writeMeshes"
    /\ file' = file \o <<Field("mesh_count", Len(scene.mMeshes), 4)>>
                    \o Flatten([i \in 1..Len(scene.mMeshes) |-> SubmeshFields(scene, i)])
    /\ wpc' = "writeGeometry"
    /\ UNCHANGED <<scene, skin_infos, fsi, materialVars, settingVars, dialogVars,
                   disk, log_error, saved>>

-----------------------------------------------------------------------------
(* writeSkeleton: countNodes, then writeNode from the root.  Each field    *)
(* of a node's record also names the node it was written for.  The        *)
(* decomposed transform keeps only its width (a vec3 and four floats).     *)
\* A variant that counts a node and its children but not their descendants.
countNodes_shallow(sc, node) == 1 + mNumChildren(sc, node)

RECURSIVE countNodes(_, _)
countNodes(sc, node) ==
    LET kids == Children(sc, node)
    IN  1 + SumSeq([k \in 1..Len(kids) |-> countNodes(sc, kids[k])])

NodeField(node, tag, val, bytes) ==
    [tag |-> tag, val |-> val, bytes |-> bytes, node |-> node]

ParentFields(sc, node) ==
    IF sc.mParent[node] # 0
    THEN << NodeField(node, "parent_name_len", Len(sc.mName[sc.mParent[node]]), 4),
            NodeField(node, "parent_name", sc.mName[sc.mParent[node]],
                      Len(sc.mName[sc.mParent[node]])) >>
    ELSE << NodeField(node, "parent_name_len", 0, 4) >>

RECURSIVE writeNode(_, _)
writeNode(sc, node) ==
    LET kids == Children(sc, node)
    IN  << NodeField(node, "name_len", Len(sc.mName[node]), 4),
           NodeField(node, "name", sc.mName[node], Len(sc.mName[node])) >>
        \o ParentFields(sc, node)
        \o << NodeField(node, "transform", <<>>, 28) >>
        \o Flatten([k \in 1..Len(kids) |-> writeNode(sc, kids[k])])

WriteSkeleton ==
    /\ wpc = "writeSkeleton"
    /\ file' = file \o <<Field("node_count", countNodes(scene, Root), 4)>>
                    \o writeNode(scene, Root)
    /\ wpc' = "closeMesh"
    /\ UNCHANGED <<scene, skin_infos, fsi, materialVars, settingVars, dialogVars,
                   disk, log_error, saved>>

-----------------------------------------------------------------------------
(* saveLumixMesh: opening the file, and the LOD table and close after      *)
(* writeSkeleton.  An artifact on disk is named by its kind and the source *)
(* it was written for.                                                     *)
Artifact(kind, source) == [kind |-> kind, source |-> source]

OpenMeshFile ==
    /\ wpc = "saveLumixMesh"
    /\ disk' = disk \cup {Artifact("msh", m_source)}
    /\ file' = <<Field("header", <<"FILE_MAGIC", "LATEST">>, 8)>>
    /\ wpc' = "writeMeshes"
    /\ UNCHANGED <<scene, skin_infos, fsi, materialVars, settingVars, dialogVars,
                   log_error, saved>>

\* file.open fails: saveLumixMesh returns false and run() skips the materials.
OpenMeshFileFails ==
    /\ wpc = "saveLumixMesh"
    /\ file' = <<>>
    /\ saved' = "false"
    /\ wpc' = "finish"
    /\ UNCHANGED <<scene, skin_infos, fsi, materialVars, settingVars, dialogVars,
                   disk, log_error>>

CloseMesh ==
    /\ wpc = "closeMesh"
    /\ file' = file \o << Field("lod_count", 1, 4),
                          Field("to_mesh", Len(scene.mMeshes) - 1, 4),
                          Field("distance", "FLT_MAX", 4) >>
    /\ saved' = "true"
    /\ wpc' = "saveLumixMaterials"
    /\ mat' = [i |-> 0, success |-> TRUE, done |-> FALSE, returned |-> TRUE]
    /\ fs_ops' = <<>>
    /\ UNCHANGED <<scene, skin_infos, fsi, settingVars, dialogVars, disk, log_error>>

-----------------------------------------------------------------------------
(* saveLumixMaterials: one iteration of the loop per step.  A material is  *)
(* [name, textures, dds]: its diffuse texture count and whether the first  *)
(* texture's suffix is "dds".  The outcomes of QFile::open, QFile::copy    *)
(* and QImageWriter::write are the environment's.                          *)
FileOp(op, material, ok) == [op |-> op, material |-> material, ok |-> ok]

\* Lines 371-389: every j uses the material's first diffuse texture.
TextureOp(material) ==
    IF m_convert_texture_to_DDS /\ ~material.dds THEN "convert" ELSE "copy"

\* A variant that keeps only the last material's outcome.
MaterialSuccess_lastOnly(success, opened, results) ==
    opened /\ \A j \in 1..Len(results) : results[j]

\* The success flag after one material (lines 356-397).
MaterialSuccess(success, opened, results) ==
    IF opened
    THEN success /\ \A j \in 1..Len(results) : results[j]
    ELSE FALSE

SaveMaterial ==
    /\ wpc = "saveLumixMaterials"
    /\ m_import_materials
    /\ ~mat.done
    /\ mat.i < Len(scene.mMaterials)
    /\ LET material == scene.mMaterials[mat.i + 1]
       IN  \E opened \in BOOLEAN, results \in [1..material.textures -> BOOLEAN] :
             /\ opened \/ \A j \in 1..material.textures : results[j]
             /\ fs_ops' = fs_ops
                    \o <<FileOp("open", mat.i, opened)>>
                    \o (IF opened
                        THEN [j \in 1..material.textures |->
                                FileOp(TextureOp(material), mat.i, results[j])]
                        ELSE <<>>)
             /\ mat' = [mat EXCEPT !.i = mat.i + 1,
                                   !.success = MaterialSuccess(mat.success, opened, results)]
             /\ disk' = disk
                    \cup (IF opened THEN {Artifact("mat", m_source)} ELSE {})
                    \cup (IF opened /\ \E j \in 1..material.textures : results[j]
                          THEN {Artifact("texture", m_source)} ELSE {})
    /\ UNCHANGED <<scene, wpc, file, skin_infos, fsi, settingVars, dialogVars, log_error, saved>>

ReturnMaterials ==
    /\ wpc = "saveLumixMaterials"
    /\ m_import_materials
    /\ ~mat.done
    /\ mat.i = Len(scene.mMaterials)
    /\ mat' = [mat EXCEPT !.done = TRUE, !.returned = mat.success]
    /\ wpc' = "finish"
    /\ UNCHANGED <<scene, file, skin_infos, fsi, fs_ops, settingVars, dialogVars,
                   disk, log_error, saved>>

\* Lines 339-342.
SkipMaterials ==
    /\ wpc = "saveLumixMaterials"
    /\ ~m_import_materials
    /\ ~mat.done
    /\ mat' = [mat EXCEPT !.done = TRUE, !.returned = TRUE]
    /\ wpc' = "finish"
    /\ UNCHANGED <<scene, file, skin_infos, fsi, fs_ops, settingVars, dialogVars,
                   disk, log_error, saved>>

-----------------------------------------------------------------------------
(* ImportThread::run.  ReadFile's result is a function of the source path. *)
RigidTree == [mParent |-> <<0>>, mName |-> <<"root">>]
SkinnedTree == [mParent |-> <<0, 1, 1, 1, 1>>, mName |-> <<"root", "a", "b", "c", "d">>]

Quad(tangents) ==
    [mNumVertices |-> 2, mFaces |-> <<<<0, 1, 0>>>>, mBones |-> <<>>,
     mMaterialIndex |-> 0, mTangents |-> tangents]

Weight(v) == [mVertexId |-> v, mWeight |-> 1]

Bone(name, weights) == [mName |-> name, mWeights |-> weights]

\* One vertex weighted by five bones, the first named after no node.
SkinnedMesh ==
    [mNumVertices |-> 1, mFaces |-> <<<<0, 0, 0>>>>,
     mBones |-> [j \in 1..5 |-> Bone(<<"x", "a", "b", "c", "d">>[j], <<Weight(0)>>)],
     mMaterialIndex |-> 0, mTangents |-> TRUE]

Key(t, v) == [mTime |-> t, mValue |-> v]

Channel(name, last) ==
    [mNodeName |-> name,
     mPositionKeys |-> <<Key(0, <<0, 0, 0>>), Key(last, <<last, 0, 0>>)>>]

Clip(duration, channels) ==
    [mName |-> "clip", mTicksPerSecond |-> 0, mDuration |-> duration,
     mChannels |-> [c \in 1..Len(channels) |-> Channel(channels[c], 2)]]

Mat == [name |-> "Mat", textures |-> 1, dds |-> FALSE]

SceneOf(tree, meshes, materials, animations) ==
    [mParent |-> tree.mParent, mName |-> tree.mName, mMeshes |-> meshes,
     mMaterials |-> materials, mAnimations |-> animations]

ModelSources == {"broken.fbx", "empty.fbx", "flat.fbx", "rigid.fbx", "skinned.fbx"}

ReadFile(source) ==
    CASE source = "empty.fbx" -> SceneOf(RigidTree, <<>>, <<>>, <<>>)
      [] source = "flat.fbx" -> SceneOf(RigidTree, <<Quad(FALSE)>>, <<Mat>>, <<>>)
      [] source = "rigid.fbx" ->
            SceneOf(RigidTree, <<Quad(TRUE)>>, <<Mat>>, <<Clip(0, <<"root">>)>>)
      [] source = "skinned.fbx" ->
            SceneOf(SkinnedTree, <<SkinnedMesh>>, <<Mat>>, <<Clip(2, <<"a", "x">>)>>)
      [] OTHER -> NoScene

\* Line 411.
LoadFailed(sc) ==
    \/ sc = NoScene
    \/ sc.mMeshes = <<>>
    \/ ~sc.mMeshes[1].mTangents

RunLoad ==
    /\ wpc = "run"
    /\ scene = NoScene
    /\ scene' = ReadFile(m_source)
    /\ log_error' = IF LoadFailed(scene')
                    THEN log_error \cup {[channel |-> "import", source |-> m_source]}
                    ELSE log_error
    /\ wpc' = "finish"
    /\ UNCHANGED <<file, skin_infos, fsi, materialVars, settingVars, dialogVars, disk, saved>>

RunSave ==
    /\ wpc = "run"
    /\ scene # NoScene
    /\ wpc' = "saveLumixMesh"
    /\ saved' = "none"
    /\ UNCHANGED <<scene, file, skin_infos, fsi, materialVars, settingVars, dialogVars,
                   disk, log_error>>

\* run() returns: QThread::finished is queued for the dialog.
RunFinish ==
    /\ wpc = "finish"
    /\ wpc' = "idle"
    /\ pending' = pending + 1
    /\ UNCHANGED <<scene, file, skin_infos, fsi, materialVars, settingVars,
                   ui, gpc, anim, anifile, gp, disk, log_error, saved>>

-----------------------------------------------------------------------------
(* getPosition.  A channel's keys are [mTime, mValue] with mValue a vec3   *)
(* of integers; the result is the exact rational vector num / den.  The    *)
(* loop tests keys[i].mTime before i < mNumPositionKeys, and a read at or  *)
(* past mNumPositionKeys is undefined: it yields some value.               *)
GarbageVec == {<<0, 0, 0>>, <<10, 0, 0>>, <<77, 77, 77>>}

\* The loop of lines 566-570: the first i with frame <= keys[i].mTime, or
\* the key count.
ScanIndex(keys, frame) ==
    IF \E i \in 1..Len(keys) : ~(frame > keys[i].mTime)
    THEN (CHOOSE i \in 1..Len(keys) :
            /\ ~(frame > keys[i].mTime)
            /\ \A j \in 1..(i - 1) : frame > keys[j].mTime) - 1
    ELSE Len(keys)

Scale(v, k) == [c \in 1..3 |-> v[c] * k]
Plus(v, w) == [c \in 1..3 |-> v[c] + w[c]]

\* Lines 577-584 on keys[i], keys[i + 1] (1-based a, a + 1).
Interpolate(keys, a, frame) ==
    LET dt == keys[a + 1].mTime - keys[a].mTime
        df == frame - keys[a].mTime
    IN  [num |-> Plus(Scale(keys[a].mValue, dt - df), Scale(keys[a + 1].mValue, df)),
         den |-> dt]

\* The possible results: the value returned and the highest key index read.
getPosition(channel, frame) ==
    LET keys == channel.mPositionKeys
        n == Len(keys)
        i == ScanIndex(keys, frame)
    IN  IF i + 1 = n
        THEN {[num |-> keys[i + 1].mValue, den |-> 1, max_read |-> i]}
        ELSE IF i + 1 < n
        THEN {[num |-> Interpolate(keys, i + 1, frame).num,
               den |-> Interpolate(keys, i + 1, frame).den,
               max_read |-> i + 1]}
        ELSE {[num |-> g, den |-> 1, max_read |-> i + 1] : g \in GarbageVec}

GetPositionCall ==
    /\ ~gp.done
    /\ \E r \in getPosition(gp.channel, gp.frame) :
          gp' = [gp EXCEPT !.done = TRUE, !.ret = r]
    /\ UNCHANGED <<scene, wpc, file, skin_infos, fsi, materialVars, settingVars,
                   ui, gpc, anim, anifile, pending, disk, log_error, saved>>

-----------------------------------------------------------------------------
(* importAnimation, on the GUI thread inside on_importButton_clicked.      *)
(* Every iteration of the clip loop uses mAnimations[0].  The (channel,    *)
(* frame) iterations of one clip are numbered 0.. in loop order.  The      *)
(* rotations array keeps, per slot, the arguments of the getRotation call  *)
(* stored there.                                                           *)
Unset == [written |-> FALSE]

crc32(name) == <<"crc32", name>>

Animation(sc) == sc.mAnimations[1]

bone_count(sc) == Len(Animation(sc).mChannels)

frame_count(sc) == Animation(sc).mDuration

fps(sc) ==
    IF Animation(sc).mTicksPerSecond = 0 THEN 25 ELSE Animation(sc).mTicksPerSecond

\* Line 615.  A null scene is read through: the process stops.
AnimBegin ==
    /\ gpc = "importAnimation"
    /\ scene # NoScene
    /\ anim' = [anim EXCEPT !.bone_names = getBoneNames(scene), !.i = 0]
    /\ gpc' = "clip"
    /\ UNCHANGED <<scene, wpc, file, skin_infos, fsi, materialVars, settingVars,
                   ui, anifile, pending, gp, disk, log_error, saved>>

AnimBeginNullScene ==
    /\ gpc = "importAnimation"
    /\ scene = NoScene
    /\ gpc' = "crashed"
    /\ wpc' = "crashed"
    /\ UNCHANGED <<scene, file, skin_infos, fsi, materialVars, settingVars,
                   ui, anim, anifile, pending, gp, disk, log_error, saved>>

\* Lines 619-638: the file opens; header, frame_count, bone_count, resize.
AnimOpen ==
    /\ gpc = "clip"
    /\ anim.i < Len(scene.mAnimations)
    /\ disk' = disk \cup {Artifact("ani", ui.sourceInput)}
    /\ anifile' = << Field("header", [fps |-> fps(scene), version |-> 1], 12),
                     Field("frame_count", frame_count(scene), 4),
                     Field("bone_count", bone_count(scene), 4) >>
    /\ anim' = [anim EXCEPT
            !.step = 0,
            !.writes = {},
            !.positions = [k \in 1..(bone_count(scene) * frame_count(scene)) |-> Unset],
            !.rotations = [k \in 1..(bone_count(scene) * frame_count(scene)) |-> Unset]]
    /\ gpc' = "channels"
    /\ UNCHANGED <<scene, wpc, file, skin_infos, fsi, materialVars, settingVars,
                   ui, pending, gp, log_error, saved>>

\* file.open fails: the clip is skipped.
AnimOpenFails ==
    /\ gpc = "clip"
    /\ anim.i < Len(scene.mAnimations)
    /\ anim' = [anim EXCEPT !.i = anim.i + 1]
    /\ UNCHANGED <<scene, wpc, file, skin_infos, fsi, materialVars, settingVars,
                   ui, gpc, anifile, pending, gp, disk, log_error, saved>>

\* The loop over the clips ends and the handler returns.
AnimReturn ==
    /\ gpc = "clip"
    /\ anim.i = Len(scene.mAnimations)
    /\ gpc' = "idle"
    /\ UNCHANGED <<scene, wpc, file, skin_infos, fsi, materialVars, settingVars,
                   ui, anim, anifile, pending, gp, disk, log_error, saved>>

AnimSteps(sc) == bone_count(sc) * frame_count(sc)

\* Iteration s of lines 640-649: its channel, frame, bone_index and array index.
AnimIteration(sc, bone_names, s) ==
    LET channel_idx == s \div frame_count(sc)
        frame == s % frame_count(sc)
        channel == Animation(sc).mChannels[channel_idx + 1]
        bone_index == indexOf(bone_names, channel.mNodeName)
    IN  [channel_idx |-> channel_idx, frame |-> frame, channel |-> channel,
         bone_index |-> bone_index,
         index |-> frame * bone_count(sc) + bone_index]

InArray(index, array) == 0 <= index /\ index < Len(array)

AnimStore ==
    /\ gpc = "channels"
    /\ anim.step < AnimSteps(scene)
    /\ LET it == AnimIteration(scene, anim.bone_names, anim.step)
       IN  /\ InArray(it.index, anim.positions)
           /\ \E r \in getPosition(it.channel, it.frame) :
                anim' = [anim EXCEPT
                    !.step = anim.step + 1,
                    !.writes = anim.writes \cup
                        {[bone_index |-> it.bone_index, index |-> it.index]},
                    !.positions[it.index + 1] =
                        [written |-> TRUE, num |-> r.num, den |-> r.den],
                    !.rotations[it.index + 1] =
                        [written |-> TRUE, channel_idx |-> it.channel_idx,
                         frame |-> it.frame]]
    /\ UNCHANGED <<scene, wpc, file, skin_infos, fsi, materialVars, settingVars,
                   ui, gpc, anifile, pending, gp, disk, log_error, saved>>

\* The index is outside the arrays: QVector::operator[] is undefined there.
\* The process stops, or the stores land outside the arrays and the loop goes on.
AnimStoreOutside ==
    /\ gpc = "channels"
    /\ anim.step < AnimSteps(scene)
    /\ LET it == AnimIteration(scene, anim.bone_names, anim.step)
       IN  /\ ~InArray(it.index, anim.positions)
           /\ anim' = [anim EXCEPT
                    !.step = anim.step + 1,
                    !.writes = anim.writes \cup
                        {[bone_index |-> it.bone_index, index |-> it.index]}]
    /\ \/ /\ gpc' = "crashed"
          /\ wpc' = "crashed"
       \/ UNCHANGED <<gpc, wpc>>
    /\ UNCHANGED <<scene, file, skin_infos, fsi, materialVars, settingVars,
                   ui, anifile, pending, gp, disk, log_error, saved>>

HashFields(bone_names) ==
    [k \in 1..Len(bone_names) |-> Field("hash", crc32(bone_names[k]), 4)]

\* Lines 651-659 with non-empty arrays.
AnimFlush ==
    /\ gpc = "channels"
    /\ anim.step = AnimSteps(scene)
    /\ Len(anim.positions) > 0
    /\ anifile' = anifile
            \o << Field("positions", anim.positions, 12 * Len(anim.positions)),
                  Field("rotations", anim.rotations, 16 * Len(anim.rotations)) >>
            \o HashFields(anim.bone_names)
    /\ anim' = [anim EXCEPT !.i = anim.i + 1]
    /\ gpc' = "clip"
    /\ UNCHANGED <<scene, wpc, file, skin_infos, fsi, materialVars, settingVars,
                   ui, pending, gp, disk, log_error, saved>>

\* positions[0] of an empty QVector is undefined: the process stops, or
\* zero bytes are written and the hashes follow.
AnimFlushEmpty ==
    /\ gpc = "channels"
    /\ anim.step = AnimSteps(scene)
    /\ Len(anim.positions) = 0
    /\ \/ /\ gpc' = "crashed"
          /\ wpc' = "crashed"
          /\ UNCHANGED <<anifile, anim>>
       \/ /\ anifile' = anifile
                \o << Field("positions", <<>>, 0), Field("rotations", <<>>, 0) >>
                \o HashFields(anim.bone_names)
          /\ anim' = [anim EXCEPT !.i = anim.i + 1]
          /\ gpc' = "clip"
          /\ UNCHANGED wpc
    /\ UNCHANGED <<scene, file, skin_infos, fsi, materialVars, settingVars,
                   ui, pending, gp, disk, log_error, saved>>

-----------------------------------------------------------------------------
(* The dialog's handlers, run by the GUI thread's event loop (gpc "idle"). *)
(* ImportThread's setters store their argument; QThread::start does        *)
(* nothing while run() has not returned.  The progress bar, the status     *)
(* label and the destination path are not part of the state.               *)
Sources == ModelSources \cup {"tex.png", "missing.fbx"}

exists(text) == text \in Sources \ {"missing.fbx"}

isTexture(text) == text = "tex.png"

start(w) == IF w = "idle" THEN "run" ELSE w

\* The event loop may take a user event that starts the worker.
MayStart == wpc = "idle" => pending < MaxPending

Hidden(ui0) ==
    [ui0 EXCEPT !.importButton = FALSE,
                !.importMaterialsCheckbox.visible = FALSE,
                !.convertToDDSCheckbox.visible = FALSE,
                !.importAnimationCheckbox.visible = FALSE]

on_sourceInput_textChanged ==
    /\ gpc = "idle"
    /\ ui.edits < MaxEdits
    /\ MayStart
    /\ \E text \in Sources \ {ui.sourceInput} :
          LET shown == [Hidden(ui) EXCEPT !.sourceInput = text, !.edits = ui.edits + 1]
          IN  IF exists(text) /\ ~isTexture(text)
              THEN /\ ui' = shown
                   /\ m_source' = text
                   /\ wpc' = start(wpc)
              ELSE /\ ui' = [shown EXCEPT !.importButton = exists(text)]
                   /\ UNCHANGED <<m_source, wpc>>
    /\ UNCHANGED <<scene, file, skin_infos, fsi, materialVars, m_import_materials,
                   m_convert_texture_to_DDS, gpc, anim, anifile, pending, gp,
                   disk, log_error, saved>>

HasAnimations(sc) == Len(sc.mAnimations) > 0

Shown(ui0, animations) ==
    [ui0 EXCEPT !.importButton = TRUE,
                !.importAnimationCheckbox.visible = TRUE,
                !.importAnimationCheckbox.enabled = animations,
                !.importMaterialsCheckbox.visible = TRUE,
                !.convertToDDSCheckbox.visible = TRUE,
                !.convertToDDSCheckbox.enabled = ui0.importMaterialsCheckbox.checked]

on_importFinished ==
    /\ gpc = "idle"
    /\ pending > 0
    /\ scene # NoScene
    /\ pending' = pending - 1
    /\ ui' = Shown(ui, HasAnimations(scene))
    /\ UNCHANGED <<scene, wpc, file, skin_infos, fsi, materialVars, settingVars,
                   gpc, anim, anifile, gp, disk, log_error, saved>>

\* Line 490 reads through a null scene: the process stops, or the read
\* yields some value and the handler goes on.
on_importFinishedNullScene ==
    /\ gpc = "idle"
    /\ pending > 0
    /\ scene = NoScene
    /\ \/ /\ gpc' = "crashed"
          /\ wpc' = "crashed"
          /\ UNCHANGED <<ui, pending>>
       \/ /\ \E animations \in BOOLEAN : ui' = Shown(ui, animations)
          /\ pending' = pending - 1
          /\ UNCHANGED <<gpc, wpc>>
    /\ UNCHANGED <<scene, file, skin_infos, fsi, materialVars, settingVars,
                   anim, anifile, gp, disk, log_error, saved>>

\* The user ticks or clears a checkbox that is shown and enabled.
ToggleAnimation ==
    /\ gpc = "idle"
    /\ ui.importAnimationCheckbox.visible
    /\ ui.importAnimationCheckbox.enabled
    /\ ui' = [ui EXCEPT !.importAnimationCheckbox.checked = ~@]
    /\ UNCHANGED <<scene, wpc, file, skin_infos, fsi, materialVars, settingVars,
                   gpc, anim, anifile, pending, gp, disk, log_error, saved>>

on_importMaterialsCheckbox_stateChanged ==
    /\ gpc = "idle"
    /\ ui.importMaterialsCheckbox.visible
    /\ ui' = [ui EXCEPT !.importMaterialsCheckbox.checked = ~@,
                        !.convertToDDSCheckbox.enabled =
                            ~ui.importMaterialsCheckbox.checked]
    /\ UNCHANGED <<scene, wpc, file, skin_infos, fsi, materialVars, settingVars,
                   gpc, anim, anifile, pending, gp, disk, log_error, saved>>

ToggleConvertToDDS ==
    /\ gpc = "idle"
    /\ ui.convertToDDSCheckbox.visible
    /\ ui.convertToDDSCheckbox.enabled
    /\ ui' = [ui EXCEPT !.convertToDDSCheckbox.checked = ~@]
    /\ UNCHANGED <<scene, wpc, file, skin_infos, fsi, materialVars, settingVars,
                   gpc, anim, anifile, pending, gp, disk, log_error, saved>>

\* on_importButton_clicked on a texture: importTexture.
importTexture ==
    /\ gpc = "idle"
    /\ ui.importButton
    /\ isTexture(ui.sourceInput)
    /\ \E written \in BOOLEAN :
          disk' = IF written THEN disk \cup {Artifact("dds", ui.sourceInput)} ELSE disk
    /\ UNCHANGED <<scene, wpc, file, skin_infos, fsi, materialVars, settingVars,
                   ui, gpc, anim, anifile, pending, gp, log_error, saved>>

\* on_importButton_clicked on anything else: importModel starts the worker
\* and returns, then importAnimation is entered if its checkbox is checked.
on_importButton_clicked ==
    /\ gpc = "idle"
    /\ ui.importButton
    /\ ~isTexture(ui.sourceInput)
    /\ MayStart
    /\ ui.clicks < MaxClicks
    /\ ui' = [ui EXCEPT !.clicks = ui.clicks + 1]
    /\ m_source' = ui.sourceInput
    /\ m_convert_texture_to_DDS' = ui.convertToDDSCheckbox.checked
    /\ m_import_materials' = ui.importMaterialsCheckbox.checked
    /\ wpc' = start(wpc)
    /\ gpc' = IF ui.importAnimationCheckbox.checked THEN "importAnimation" ELSE "idle"
    /\ UNCHANGED <<scene, file, skin_infos, fsi, materialVars, anim, anifile,
                   pending, gp, disk, log_error, saved>>

-----------------------------------------------------------------------------
(* The program: the dialog after construction, the worker idle.            *)
NoCall == [channel |-> [mNodeName |-> "", mPositionKeys |-> <<>>], frame |-> 0,
           done |-> TRUE, ret |-> [num |-> <<0, 0, 0>>, den |-> 1, max_read |-> 0]]

NoAnim == [i |-> 0, step |-> 0, bone_names |-> <<>>, writes |-> {},
           positions |-> <<>>, rotations |-> <<>>]

NoMat == [i |-> 0, success |-> TRUE, done |-> FALSE, returned |-> TRUE]

Init ==
    /\ scene = NoScene
    /\ wpc = "idle"
    /\ file = <<>>
    /\ skin_infos = <<>>
    /\ fsi = 0
    /\ mat = NoMat
    /\ fs_ops = <<>>
    /\ m_source = ""
    /\ m_import_materials = FALSE
    /\ m_convert_texture_to_DDS = FALSE
    /\ ui = [sourceInput |-> "", importButton |-> FALSE, edits |-> 0, clicks |-> 0,
             importAnimationCheckbox |->
                [checked |-> FALSE, enabled |-> TRUE, visible |-> FALSE],
             importMaterialsCheckbox |-> [checked |-> FALSE, visible |-> FALSE],
             convertToDDSCheckbox |->
                [checked |-> FALSE, enabled |-> TRUE, visible |-> FALSE]]
    /\ gpc = "idle"
    /\ anim = NoAnim
    /\ anifile = <<>>
    /\ pending = 0
    /\ disk = {}
    /\ log_error = {}
    /\ saved = "none"
    /\ gp = NoCall

Worker ==
    \/ RunLoad
    \/ RunSave
    \/ OpenMeshFile
    \/ OpenMeshFileFails
    \/ WriteMeshes
    \/ WriteIndices
    \/ FillSkinInfoStore
    \/ FillSkinInfoOverflow
    \/ WriteVertices
    \/ WriteVerticesNullTangents
    \/ WriteSkeleton
    \/ CloseMesh
    \/ SaveMaterial
    \/ ReturnMaterials
    \/ SkipMaterials
    \/ RunFinish

Dialog ==
    \/ on_sourceInput_textChanged
    \/ on_importFinished
    \/ on_importFinishedNullScene
    \/ ToggleAnimation
    \/ on_importMaterialsCheckbox_stateChanged
    \/ ToggleConvertToDDS
    \/ importTexture
    \/ on_importButton_clicked
    \/ AnimBegin
    \/ AnimBeginNullScene
    \/ AnimOpen
    \/ AnimOpenFails
    \/ AnimReturn
    \/ AnimStore
    \/ AnimStoreOutside
    \/ AnimFlush
    \/ AnimFlushEmpty

Next == Worker \/ Dialog

Spec == Init /\ [][Next]_vars

-----------------------------------------------------------------------------
(* Specifications of single operations, entered with inputs drawn from     *)
(* bounded sets.                                                           *)
InitialUi(text) ==
    [sourceInput |-> text, importButton |-> text # "", edits |-> 0, clicks |-> 0,
     importAnimationCheckbox |->
        [checked |-> text # "", enabled |-> TRUE, visible |-> text # ""],
     importMaterialsCheckbox |-> [checked |-> FALSE, visible |-> text # ""],
     convertToDDSCheckbox |-> [checked |-> FALSE, enabled |-> FALSE, visible |-> text # ""]]

\* The worker at pc inside one run for "model.fbx", the GUI thread at g.
At(pc, g) ==
    /\ wpc = pc
    /\ gpc = g
    /\ file = <<>>
    /\ skin_infos = <<>>
    /\ fsi = 0
    /\ mat = NoMat
    /\ fs_ops = <<>>
    /\ m_source = "model.fbx"
    /\ ui = InitialUi("model.fbx")
    /\ anim = NoAnim
    /\ anifile = <<>>
    /\ pending = 0
    /\ disk = {}
    /\ log_error = {}

(* writeGeometry on scenes of one or two meshes. *)
FaceSet(nv) == {<<0, nv - 1, 0>>}

BoneSet(nv, maxWeights) ==
    [mName : {"a", "x"},
     mWeights : SeqsOf([mVertexId : 0..(nv - 1), mWeight : {1}], 0, maxWeights)]

MeshSet(maxBones, maxWeights) ==
    UNION {[mNumVertices : {nv},
            mFaces : SeqsOf(FaceSet(nv), 0, MaxFaces),
            mBones : SeqsOf(BoneSet(nv, maxWeights), 0, maxBones),
            mMaterialIndex : {0},
            mTangents : {TRUE}] : nv \in 1..MaxVertices}

SmallSkinnedTree == [mParent |-> <<0, 1>>, mName |-> <<"root", "a">>]

GeometryScenes ==
    {SceneOf(tree, meshes, <<Mat>>, <<>>) :
        tree \in {RigidTree, SmallSkinnedTree},
        meshes \in SeqsOf(MeshSet(MaxBones, MaxWeights), 1, 1)
                   \cup SeqsOf(MeshSet(1, 1), MaxMeshes, MaxMeshes)}

InitGeometry ==
    /\ scene \in GeometryScenes
    /\ At("writeGeometry", "idle")
    /\ m_import_materials = FALSE
    /\ m_convert_texture_to_DDS = FALSE
    /\ saved = "none"
    /\ gp = NoCall

NextGeometry ==
    \/ WriteIndices
    \/ FillSkinInfoStore
    \/ FillSkinInfoOverflow
    \/ WriteVertices

SpecGeometry == InitGeometry /\ [][NextGeometry]_vars

(* getPosition on channels of 1..MaxKeys keys with strictly ascending times. *)
KeyTimes == {0, 5, 10}

KeyValues == {<<0, 0, 0>>, <<10, 0, 0>>}

Ascending(keys) == \A k \in 1..(Len(keys) - 1) : keys[k].mTime < keys[k + 1].mTime

PositionChannels ==
    {ch \in [mNodeName : {"a"},
             mPositionKeys : SeqsOf([mTime : KeyTimes, mValue : KeyValues], 1, MaxKeys)] :
        Ascending(ch.mPositionKeys)}

InitPosition ==
    /\ scene = NoScene
    /\ At("idle", "idle")
    /\ m_import_materials = FALSE
    /\ m_convert_texture_to_DDS = FALSE
    /\ saved = "none"
    /\ gp \in [channel : PositionChannels, frame : 0..MaxFrame, done : {FALSE},
               ret : {NoCall.ret}]

NextPosition == GetPositionCall

SpecPosition == InitPosition /\ [][NextPosition]_vars

(* importAnimation on trees of one to three nodes and clips of up to       *)
(* MaxChannels channels, some named after no node.                         *)
AnimationTrees ==
    { RigidTree, SmallSkinnedTree,
      [mParent |-> <<0, 1, 1>>, mName |-> <<"root", "a", "b">>],
      [mParent |-> <<0, 1, 2>>, mName |-> <<"root", "b", "a">>] }

AnimationClips ==
    {[mName |-> "clip", mTicksPerSecond |-> 0, mDuration |-> duration,
      mChannels |-> [c \in 1..Len(names) |-> Channel(names[c], MaxDuration)]] :
        duration \in 0..MaxDuration,
        names \in SeqsOf({"root", "a", "x"}, 0, MaxChannels)}

AnimationScenes ==
    {SceneOf(tree, <<>>, <<>>, [k \in 1..clips |-> clip]) :
        tree \in AnimationTrees, clip \in AnimationClips, clips \in 0..MaxClips}

InitAnimation ==
    /\ scene \in AnimationScenes
    /\ At("idle", "importAnimation")
    /\ m_import_materials = FALSE
    /\ m_convert_texture_to_DDS = FALSE
    /\ saved = "none"
    /\ gp = NoCall

NextAnimation ==
    \/ AnimBegin
    \/ AnimOpen
    \/ AnimOpenFails
    \/ AnimReturn
    \/ AnimStore
    \/ AnimStoreOutside
    \/ AnimFlush
    \/ AnimFlushEmpty

SpecAnimation == InitAnimation /\ [][NextAnimation]_vars

(* saveLumixMaterials on up to MaxMaterials materials. *)
MaterialSet == [name : {"Mat"}, textures : 0..MaxTextures, dds : BOOLEAN]

MaterialScenes ==
    {SceneOf(RigidTree, <<>>, materials, <<>>) :
        materials \in SeqsOf(MaterialSet, 0, MaxMaterials)}

InitMaterials ==
    /\ scene \in MaterialScenes
    /\ At("saveLumixMaterials", "idle")
    /\ m_import_materials \in BOOLEAN
    /\ m_convert_texture_to_DDS \in BOOLEAN
    /\ saved = "true"
    /\ gp = NoCall

NextMaterials ==
    \/ SaveMaterial
    \/ ReturnMaterials
    \/ SkipMaterials

SpecMaterials == InitMaterials /\ [][NextMaterials]_vars

(* writeSkeleton on every tree of up to MaxNodes nodes. *)
NodeNames == {"", "a", "bb"}

TreeShapes(n) ==
    {p \in [1..n -> 0..(n - 1)] : p[1] = 0 /\ \A c \in 2..n : 1 <= p[c] /\ p[c] < c}

SkeletonScenes ==
    UNION {{SceneOf([mParent |-> p, mName |-> names], <<>>, <<>>, <<>>) :
                p \in TreeShapes(n), names \in [1..n -> NodeNames]} :
           n \in 1..MaxNodes}

InitSkeleton ==
    /\ scene \in SkeletonScenes
    /\ At("writeSkeleton", "idle")
    /\ m_import_materials = FALSE
    /\ m_convert_texture_to_DDS = FALSE
    /\ saved = "none"
    /\ gp = NoCall

NextSkeleton == WriteSkeleton

SpecSkeleton == InitSkeleton /\ [][NextSkeleton]_vars

-----------------------------------------------------------------------------
(* Properties.                                                             *)
Count(f, tag) == Cardinality({k \in 1..Len(f) : f[k].tag = tag})

Bytes(f, tags) == SumSeq([k \in 1..Len(f) |-> IF f[k].tag \in tags THEN f[k].bytes ELSE 0])

FieldValue(f, tag) == f[CHOOSE k \in 1..Len(f) : f[k].tag = tag].val

VertexTags == {"weights", "bone_indices", "position", "normal", "tangent", "uv"}

\* writeGeometry has returned.
GeometryWritten == wpc = "writeSkeleton"

(* C1: for a scene whose root has no children, writeGeometry emits 3F      *)
(* index values and a vertex buffer of 24V bytes, the vertices_size value  *)
(* written just before it.                                                 *)
C1_RigidGeometrySizes ==
    (GeometryWritten /\ mNumChildren(scene, Root) = 0) =>
        /\ Count(file, "index") = 3 * TotalFaces(scene)
        /\ Bytes(file, VertexTags) = 24 * TotalVertices(scene)
        /\ Bytes(file, VertexTags) = FieldValue(file, "vertices_size")

\* The pairs fillSkinInfo has processed that name global vertex v (0-based).
ProcessedFor(v) ==
    SelectSeq(SubSeq(SkinPairs(scene), 1, fsi), LAMBDA p : p.vertex = v)

Min(a, b) == IF a < b THEN a ELSE b

\* A vertex's first four pairs in their slots, the other slots zero.
FirstFour(pairs) ==
    [weights |-> [k \in 1..4 |-> IF k <= Len(pairs) THEN pairs[k].weight ELSE 0],
     bone_indices |-> [k \in 1..4 |-> IF k <= Len(pairs) THEN pairs[k].bone_index ELSE 0],
     index |-> Min(Len(pairs), 4)]

(* C2: every vertex holds at most 4 influences: its slot index never       *)
(* exceeds 4 and a 5th or later pair leaves its 4 stored weights and bone  *)
(* indices as they were.                                                   *)
C2_AtMostFourInfluences ==
    wpc \in {"fillSkinInfo", "writeSkeleton"} =>
        \A v \in 1..Len(skin_infos) : skin_infos[v] = FirstFour(ProcessedFor(v - 1))

\* num / den = v as rational vectors.
RatEq(r, num, den) == \A c \in 1..3 : r.num[c] * den = num[c] * r.den

(* C3: getPosition returns the linear interpolation of the bracketing keys *)
(* when the frame lies between two consecutive key times, and the final    *)
(* key's value, reading no key index at or past the key count, when the    *)
(* frame exceeds every key time: keys {0: (0,0,0), 10: (10,0,0)} give      *)
(* (5,0,0) at frame 5 and (10,0,0) at frame 15.                            *)
C3_PositionInterpolates ==
    gp.done =>
        LET keys == gp.channel.mPositionKeys
            n == Len(keys)
            f == gp.frame
        IN  /\ \A a \in 1..(n - 1) :
                 (keys[a].mTime <= f /\ f <= keys[a + 1].mTime) =>
                    RatEq(gp.ret,
                          Plus(Scale(keys[a].mValue, keys[a + 1].mTime - f),
                               Scale(keys[a + 1].mValue, f - keys[a].mTime)),
                          keys[a + 1].mTime - keys[a].mTime)
            /\ (n > 0 /\ f > keys[n].mTime) =>
                 /\ RatEq(gp.ret, keys[n].mValue, 1)
                 /\ gp.ret.max_read < n

SerializationStages ==
    {"saveLumixMesh", "writeMeshes", "writeGeometry", "fillSkinInfo",
     "writeSkeleton", "closeMesh", "saveLumixMaterials"}

AnimationActive == gpc \in {"importAnimation", "clip", "channels"}

(* C4: the stages of one import run one after another: no two are active   *)
(* at the same time, and importAnimation begins only after saveLumixMesh   *)
(* has completed.                                                          *)
C4_StagesAreSequential ==
    AnimationActive => (saved = "true" /\ wpc \notin SerializationStages)

(* C5: when saveLumixMesh returns false, the run writes no animation file  *)
(* and no material descriptor.                                             *)
C5_MeshFailureAbortsRun ==
    saved = "false" => \A a \in disk : a.kind \notin {"ani", "mat"}

NameError(name) == [channel |-> "import", name |-> name]

UnresolvedBones(sc) ==
    {p.name : p \in {SkinPairs(sc)[k] : k \in 1..Len(SkinPairs(sc))}}
        \ {sc.mName[n] : n \in 1..Len(sc.mName)}

UnresolvedChannels(sc) ==
    {Animation(sc).mChannels[c].mNodeName : c \in 1..bone_count(sc)}
        \ {sc.mName[n] : n \in 1..Len(sc.mName)}

(* C6: a bone or channel name that matches no node name ends the           *)
(* conversion in an error naming it, and -1 is never stored as a bone      *)
(* index of a vertex nor used as the bone_index of an animation write.     *)
C6_UnresolvedNameIsAnError ==
    /\ \A v \in 1..Len(skin_infos) : \A k \in 1..4 :
          skin_infos[v].bone_indices[k] # -1
    /\ \A w \in anim.writes : w.bone_index # -1
    /\ (wpc \in {"writeSkeleton", "closeMesh"} \/ saved = "true") =>
          \A name \in UnresolvedBones(scene) : NameError(name) \in log_error
    /\ Count(anifile, "positions") = 1 =>
          \A name \in UnresolvedChannels(scene) : NameError(name) \in log_error

\* importAnimation has written a clip's arrays and hashes.
ClipWritten == Count(anifile, "positions") = 1

(* C7: the number of bone-name hashes importAnimation writes equals the    *)
(* clip's channel count, the bone_count of the header.                     *)
C7_HashCountIsChannelCount ==
    ClipWritten =>
        /\ FieldValue(anifile, "bone_count") = Len(Animation(scene).mChannels)
        /\ Count(anifile, "hash") = FieldValue(anifile, "bone_count")

(* C8: when loading a source fails, no mesh, animation or material         *)
(* artifact is written for it, by that run or by a later import click.     *)
C8_LoadFailureWritesNothing ==
    \A e \in log_error : \A a \in disk :
        a.source = e.source => a.kind \notin {"msh", "ani", "mat"}

AllOk(ops) == \A k \in 1..Len(ops) : ops[k].ok

OpsOf(i) == SelectSeq(fs_ops, LAMBDA o : o.material = i)

(* C9: saveLumixMaterials with material import enabled attempts every      *)
(* material in list order, whatever failed before, and returns true        *)
(* exactly when no descriptor open and no texture copy or conversion       *)
(* failed.                                                                 *)
C9_MaterialsAreBestEffort ==
    (mat.done /\ m_import_materials) =>
        LET opens == SelectSeq(fs_ops, LAMBDA o : o.op = "open")
        IN  /\ Len(opens) = Len(scene.mMaterials)
            /\ \A k \in 1..Len(opens) : opens[k].material = k - 1
            /\ \A k \in 1..Len(opens) :
                 Len(OpsOf(k - 1)) =
                    1 + (IF opens[k].ok THEN scene.mMaterials[k].textures ELSE 0)
            /\ mat.returned <=> AllOk(fs_ops)

\* The first material's descriptor failed to open, the second one was
\* written with its texture, and the call returned false.
C9_Witness ==
    /\ mat.done
    /\ m_import_materials
    /\ Len(scene.mMaterials) = 2
    /\ scene.mMaterials[2].textures = 1
    /\ ~fs_ops[1].ok
    /\ AllOk(OpsOf(1))
    /\ Len(OpsOf(1)) = 2
    /\ ~mat.returned

\* The node records of the skeleton block, by their first field.
SkeletonWritten == wpc = "closeMesh"

SkeletonFields ==
    SubSeq(file, (CHOOSE k \in 1..Len(file) : file[k].tag = "node_count") + 1, Len(file))

NodeRecords == SelectSeq(SkeletonFields, LAMBDA fld : fld.tag = "name_len")

RecordIndex(node) == CHOOSE k \in 1..Len(NodeRecords) : NodeRecords[k].node = node

NodeFieldsOf(node, tag) ==
    SelectSeq(SkeletonFields, LAMBDA fld : fld.node = node /\ fld.tag = tag)

RECURSIVE IsAncestor(_, _, _)
IsAncestor(sc, a, n) ==
    /\ sc.mParent[n] # 0
    /\ (sc.mParent[n] = a \/ IsAncestor(sc, a, sc.mParent[n]))

(* C10: writeSkeleton writes a node_count equal to the number of nodes of  *)
(* the tree and that many node records in pre-order: the root first with a *)
(* length-0 parent name, every other node after its parent and carrying    *)
(* its parent's name.                                                      *)
C10_SkeletonIsPreOrder ==
    SkeletonWritten =>
        LET n == Len(scene.mParent)
        IN  /\ FieldValue(file, "node_count") = n
            /\ Len(NodeRecords) = n
            /\ \A node \in 1..n :
                 Cardinality({k \in 1..n : NodeRecords[k].node = node}) = 1
            /\ NodeRecords[1].node = Root
            /\ NodeFieldsOf(Root, "parent_name_len")[1].val = 0
            /\ NodeFieldsOf(Root, "parent_name") = <<>>
            /\ \A node \in 2..n :
                 LET parent == scene.mParent[node]
                 IN  /\ RecordIndex(parent) < RecordIndex(node)
                     /\ NodeFieldsOf(node, "parent_name_len")[1].val =
                            Len(scene.mName[parent])
                     /\ NodeFieldsOf(node, "parent_name")[1].val = scene.mName[parent]
            /\ \A node \in 1..n :
                 {RecordIndex(d) : d \in {d \in 1..n : IsAncestor(scene, node, d)}}
                    = (RecordIndex(node) + 1)
                        ..(RecordIndex(node)
                            + Cardinality({d \in 1..n : IsAncestor(scene, node, d)}))

\* A tree three levels deep with a leaf written after a deeper subtree.
C10_Witness ==
    /\ SkeletonWritten
    /\ Len(scene.mParent) = 4
    /\ scene.mParent = <<0, 1, 1, 2>>
    /\ scene.mName = <<"a", "bb", "a", "">>
    /\ Len(NodeRecords) = 4
    /\ NodeRecords[3].node = 4

-----------------------------------------------------------------------------
(* writeMeshes on scenes of one or two meshes. *)
InitMeshes ==
    /\ scene \in GeometryScenes
    /\ At("writeMeshes", "idle")
    /\ m_import_materials = FALSE
    /\ m_convert_texture_to_DDS = FALSE
    /\ saved = "none"
    /\ gp = NoCall

NextMeshes == WriteMeshes

SpecMeshes == InitMeshes /\ [][NextMeshes]_vars

\* The values of the fields of f tagged tag, in file order.
TagValues(f, tag) ==
    LET s == SelectSeq(f, LAMBDA x : x.tag = tag)
    IN  [k \in 1..Len(s) |-> s[k].val]

\* writeMeshes has written the submesh table.
MeshTableWritten == Count(file, "mesh_count") = 1

(* C11: in the submesh table the index_offset of submesh i is in           *)
(* triangles: the sum of the triangle_count values of submeshes 0..i-1.    *)
C11_IndexOffsetInTriangles ==
    MeshTableWritten =>
        LET index_offset == TagValues(file, "indices_offset")
            triangle_count == TagValues(file, "mesh_tri_count")
        IN  /\ Len(index_offset) = Len(scene.mMeshes)
            /\ \A i \in 1..Len(index_offset) :
                  index_offset[i] = SumSeq([m \in 1..(i - 1) |-> triangle_count[m]])

\* Every channel of the clip is named after a node of the tree.
AllChannelsResolve(sc) ==
    /\ sc # NoScene
    /\ Len(sc.mAnimations) > 0
    /\ UnresolvedChannels(sc) = {}

(* C12: for a clip whose channel names all resolve, every write to the     *)
(* positions and rotations arrays uses an index inside the arrays, also    *)
(* when the tree has more nodes than the clip has channels, and the arrays *)
(* are read for output only when they are non-empty.                       *)
C12_AnimationIndicesInRange ==
    AllChannelsResolve(scene) =>
        /\ \A w \in anim.writes : InArray(w.index, anim.positions)
        /\ gpc # "crashed"
        /\ \A k \in 1..Len(anifile) :
              anifile[k].tag \in {"positions", "rotations"} => anifile[k].bytes > 0

====
